---- MODULE Spec2Model ----
(***************************************************************************)
(* Reading store of the IAQ dashboard (src/src/pages/Dashboard.tsx): the   *)
(* periodic useSWR fetch whose onSuccess merges, dedups, prunes and sorts  *)
(* the incoming rows into the `iaq` state, and the retention buttons whose *)
(* handlerStartGet replaces `iaq` with the response of a full fetch; and   *)
(* the views computed from the store at every render: the chart series     *)
(* (buildSeries), the mode bands (buildModeBands) and the newest reading  *)
(* of every sensor channel (getLastestIAQData).                            *)
(*                                                                         *)
(* Conventions of the model                                                *)
(*  - an optional measurement (co2, temperature, temp, humidity, mode)     *)
(*    is a record tagged "none" (null/undefined), "num" (the number v) or  *)
(*    "NaN";                                                               *)
(*  - an id or a sensor_id (string | number) is a record tagged "none",    *)
(*    "num" or "str", so that String() has something to convert;           *)
(*  - the server is not part of the repository: a response may hold any    *)
(*    rows, in any order;                                                  *)
(*  - co2 is counted in hundredths of a ppm, so that the calibration       *)
(*    offset 66.88 is the integer 6688;                                    *)
(*  - time is in milliseconds, with the epoch shifted so that Date.now()   *)
(*    fits TLC's integers.                                                 *)
(***************************************************************************)
EXTENDS Integers, Sequences, FiniteSets, TLC

VARIABLES
  iaq,            \* useState<Row[]>: the reading store
  timeHis,        \* useState(1800000): the retention window selected
  now,            \* what Date.now() returns
  nowMs,          \* useNowTicker: the state the 10 s interval sets
  latesttimeRef,  \* useRef<number>(0)
  swrInflight,    \* periodic (useSWR) requests sent and not yet answered,
                  \* each one the `start` of its payload
  axiosInflight,  \* handlerStartGet requests sent and not yet answered,
                  \* each one the `rangeSelected` of its payload
  ev              \* the last handler that ran and its response: [op, d]

vars ==
  <<iaq, timeHis, now, nowMs, latesttimeRef, swrInflight, axiosInflight, ev>>

----------------------------------------------------------------------------
(* Row: the optional fields *)

NoId == [k |-> "none", n |-> 0, s |-> ""]

NumId(n) == [k |-> "num", n |-> n, s |-> ""]

StrId(s) == [k |-> "str", n |-> 0, s |-> s]

NoValue == [k |-> "none", v |-> 0]

Some(v) == [k |-> "num", v |-> v]

NaN == [k |-> "NaN", v |-> 0]

ValueOf(o) == o.v

\* String(x) for an id or a sensor_id that is not null: a number prints in
\* decimal, a string is itself.
StringOfId(id) == IF id.k = "num" THEN ToString(id.n) ELSE id.s

\* A reading of the sensor named by the string sid that carries co2 only.
Row(id, sid, ts, co2) ==
  [id |-> id, sensor_id |-> StrId(sid), timestamp |-> ts, co2 |-> co2,
   temperature |-> NoValue, temp |-> NoValue, humidity |-> NoValue,
   mode |-> NoValue]

----------------------------------------------------------------------------
(* The setIaq updater of onSuccess *)

\* Faulty variant of key: the explicit id is ignored.
keyIgnoresId(r) ==
  StringOfId(r.sensor_id) \o "-" \o ToString(r.timestamp)

\* r.id != null ? String(r.id) : `${r.sensor_id}-${r.timestamp}`
key(r) ==
  IF r.id.k # "none"
    THEN StringOfId(r.id)
    ELSE StringOfId(r.sensor_id) \o "-" \o ToString(r.timestamp)

\* Faulty variant of MapSet: the first value of a key stays.
MapSetKeepFirst(m, k, v) ==
  IF \E i \in 1..Len(m) : m[i].k = k
    THEN m
    ELSE Append(m, [k |-> k, v |-> v])

\* Map.prototype.set on a Map kept as the sequence of its entries in
\* insertion order: an existing key keeps its place and takes the new value.
MapSet(m, k, v) ==
  IF \E i \in 1..Len(m) : m[i].k = k
    THEN [i \in 1..Len(m) |-> IF m[i].k = k THEN [k |-> k, v |-> v] ELSE m[i]]
    ELSE Append(m, [k |-> k, v |-> v])

RECURSIVE MapOfFrom(_, _, _)
\* for (const r of merged) map.set(key, r), from position i on
MapOfFrom(m, merged, i) ==
  IF i > Len(merged)
    THEN m
    ELSE MapOfFrom(MapSet(m, key(merged[i]), merged[i]), merged, i + 1)

MapOf(merged) == MapOfFrom(<<>>, merged, 1)

\* Array.from(map.values())
MapValues(m) == [i \in 1..Len(m) |-> m[i].v]

\* Faulty variant of FilterCutoff: the reading at the cutoff is dropped too.
FilterCutoffStrict(rows, cutoff) ==
  SelectSeq(rows, LAMBDA r : r.timestamp > cutoff)

\* .filter((r) => r.timestamp >= cutoff)
FilterCutoff(rows, cutoff) == SelectSeq(rows, LAMBDA r : r.timestamp >= cutoff)

\* Faulty variant of InsertByTimestamp: r goes before the elements it ties with.
InsertBeforeEquals(sorted, r) ==
  LET p == Cardinality({i \in 1..Len(sorted) :
                          sorted[i].timestamp < r.timestamp})
  IN  SubSeq(sorted, 1, p) \o <<r>> \o SubSeq(sorted, p + 1, Len(sorted))

\* One step of a stable sort: r goes after every element that does not
\* compare greater than it.
InsertByTimestamp(sorted, r) ==
  LET p == Cardinality({i \in 1..Len(sorted) :
                          sorted[i].timestamp <= r.timestamp})
  IN  SubSeq(sorted, 1, p) \o <<r>> \o SubSeq(sorted, p + 1, Len(sorted))

\* Faulty variant of SortByTimestamp: the array is left in the order of the Map.
SortSkipped(rows) == rows

RECURSIVE SortFrom(_, _, _)
SortFrom(sorted, rows, i) ==
  IF i > Len(rows)
    THEN sorted
    ELSE SortFrom(InsertByTimestamp(sorted, rows[i]), rows, i + 1)

\* .sort((a, b) => a.timestamp - b.timestamp): Array.prototype.sort is
\* stable (ECMAScript 2019).
SortByTimestamp(rows) == SortFrom(<<>>, rows, 1)

\* const merged = [...prev, ...adjusted]: the spread copies the elements of
\* prev into a new array; everything after it (the Map, Array.from, filter,
\* sort) works on merged and on arrays made from it.
arraysOfSpread(prev, adjusted) == [prev |-> prev, merged |-> prev \o adjusted]

\* Faulty variant of MergeUpdater: nothing is pruned.
MergeUpdaterNoPrune(prev, adjusted, cutoff) ==
  SortByTimestamp(MapValues(MapOf(arraysOfSpread(prev, adjusted).merged)))

\* setIaq((prev) => { ... }) with the incoming rows `adjusted`
MergeUpdater(prev, adjusted, cutoff) ==
  SortByTimestamp(FilterCutoff(MapValues(MapOf(arraysOfSpread(prev, adjusted).merged)),
                               cutoff))

\* d.map((row) => String(row.sensor_id) === "before_scrub"
\*                  ? {...row, co2: (row.co2 ?? 0) - 66.88} : row)
Co2Offset == 6688

\* Faulty variant of adjustRow: no calibration offset.
adjustRowNoOffset(row) == row

adjustRow(row) ==
  IF StringOfId(row.sensor_id) = "before_scrub"
    THEN LET original == IF row.co2 = NoValue THEN Some(0) ELSE row.co2
         IN  [row EXCEPT !.co2 = IF original = NaN
                                   THEN NaN
                                   ELSE Some(ValueOf(original) - Co2Offset)]
    ELSE row

adjusted(d) == [i \in 1..Len(d) |-> adjustRow(d[i])]

----------------------------------------------------------------------------
(* buildSeries *)

\* bySensor.has(sid), bySensor.get(sid) on a Map kept as MapSet keeps it
MapHas(m, k) == \E i \in 1..Len(m) : m[i].k = k

MapGet(m, k) == m[CHOOSE i \in 1..Len(m) : m[i].k = k].v

\* Faulty variant of inWindow: the reading at windowEnd is left out.
inWindowOpenEnd(r, windowStart, windowEnd) ==
  ~(r.timestamp < windowStart \/ r.timestamp >= windowEnd)

\* if (r.timestamp < windowStart || r.timestamp > windowEnd) continue;
inWindow(r, windowStart, windowEnd) ==
  ~(r.timestamp < windowStart \/ r.timestamp > windowEnd)

\* Faulty variant of hasY: a missing value is plotted too (as 0).
hasYAlways(yVal) == TRUE

\* if (yVal == null || Number.isNaN(yVal)) continue;
hasY(yVal) == ~(yVal = NoValue \/ yVal = NaN)

\* The names an object literal inherits from Object.prototype: each is a
\* function (__proto__ an object), so obj[name] is neither undefined nor
\* falsy for them.
ObjectPrototype ==
  {"constructor", "hasOwnProperty", "isPrototypeOf", "propertyIsEnumerable",
   "toLocaleString", "toString", "valueOf", "__proto__", "__defineGetter__",
   "__defineSetter__", "__lookupGetter__", "__lookupSetter__"}

\* obj[sid] for an object literal kept as the function of its own keys:
\* the own property, else the member of Object.prototype (written as a
\* string that is no label), else undefined (written "").
PropertyOf(obj, sid) ==
  IF sid \in DOMAIN obj
    THEN obj[sid]
    ELSE IF sid \in ObjectPrototype
           THEN "[Object.prototype." \o sid \o "]"
           ELSE ""

\* ({ before_scrub: "CO₂ Before Scrub", ... }[sid] || `CO₂ Sensor ${sid}`)
labelSensor(sid) ==
  LET own == PropertyOf(("before_scrub" :> "CO₂ Before Scrub")
                          @@ ("after_scrub" :> "CO₂ After Scrub")
                          @@ ("interlock_4c" :> "CO₂ Interlock 4C")
                          @@ ("1" :> "CO₂ Calibrate") @@ ("2" :> "CO₂ Outlet")
                          @@ ("3" :> "CO₂ Inlet") @@ ("4" :> "CO₂ Regen"), sid)
  IN  IF own # "" THEN own ELSE "CO₂ Sensor " \o sid

\* (r) => r.co2
pickCo2(r) == r.co2

\* (r) => r.temperature ?? r.temp ?? null
pickTemperature(r) ==
  IF r.temperature # NoValue THEN r.temperature ELSE r.temp

\* The label of tempSeries.
labelTemperature(sid) ==
  LET own == PropertyOf(("before_scrub" :> "Temp Before Scrub")
                          @@ ("after_scrub" :> "Temp After Scrub")
                          @@ ("interlock_4c" :> "Temp Interlock 4C")
                          @@ ("1" :> "Temp Calibrate") @@ ("2" :> "Temp Outlet")
                          @@ ("3" :> "Temp Inlet") @@ ("4" :> "Temp Regen")
                          @@ ("51" :> "Temp TK"), sid)
  IN  IF own # "" THEN own ELSE "Temp " \o sid

\* (r) => r.humidity ?? null
pickHumidity(r) == r.humidity

\* The label of humidSeries.
labelHumidity(sid) ==
  LET own == PropertyOf(("before_scrub" :> "Humid Before Scrub")
                          @@ ("after_scrub" :> "Humid After Scrub")
                          @@ ("interlock_4c" :> "Humid Interlock 4C")
                          @@ ("1" :> "Humid Calibrate")
                          @@ ("2" :> "Humid Outlet") @@ ("3" :> "Humid Inlet")
                          @@ ("4" :> "Humid Regen") @@ ("51" :> "Humid TK"),
                        sid)
  IN  IF own # "" THEN own ELSE "Humid " \o sid

\* pickY and sensorLabel as the chart named `chart` passes them to
\* buildSeries.
pickY(chart, r) ==
  CASE chart = "co2" -> pickCo2(r)
    [] chart = "temperature" -> pickTemperature(r)
    [] chart = "humidity" -> pickHumidity(r)

sensorLabel(chart, sid) ==
  CASE chart = "co2" -> labelSensor(sid)
    [] chart = "temperature" -> labelTemperature(sid)
    [] chart = "humidity" -> labelHumidity(sid)

\* The points pushed by the loop, in the order of the rows, each with the
\* sid = String(r.sensor_id) of its Map entry.
Pushes(rows, windowStart, windowEnd, chart) ==
  LET kept == SelectSeq(rows, LAMBDA r :
                /\ inWindow(r, windowStart, windowEnd)
                /\ hasY(pickY(chart, r)))
  IN  [i \in 1..Len(kept) |->
         [sid |-> StringOfId(kept[i].sensor_id),
          pt  |-> [x |-> kept[i].timestamp,
                   y |-> ValueOf(pickY(chart, kept[i]))]]]

\* Faulty variant of bySensorPush: every point goes to the first entry.
bySensorPushFirst(m, p) ==
  IF Len(m) = 0
    THEN MapSet(m, p.sid, <<p.pt>>)
    ELSE MapSet(m, m[1].k, Append(m[1].v, p.pt))

\* if (!bySensor.has(sid)) bySensor.set(sid, []);
\* bySensor.get(sid)!.push({ x: r.timestamp, y: yVal });
bySensorPush(m, p) ==
  LET m1 == IF ~MapHas(m, p.sid) THEN MapSet(m, p.sid, <<>>) ELSE m
  IN  MapSet(m1, p.sid, Append(MapGet(m1, p.sid), p.pt))

RECURSIVE bySensorFrom(_, _, _)
bySensorFrom(m, pushes, i) ==
  IF i > Len(pushes)
    THEN m
    ELSE bySensorFrom(bySensorPush(m, pushes[i]), pushes, i + 1)

\* One step of the stable pts.sort((a, b) => a.x - b.x)
InsertByX(sorted, pt) ==
  LET p == Cardinality({i \in 1..Len(sorted) : sorted[i].x <= pt.x})
  IN  SubSeq(sorted, 1, p) \o <<pt>> \o SubSeq(sorted, p + 1, Len(sorted))

RECURSIVE SortPointsFrom(_, _, _)
SortPointsFrom(sorted, pts, i) ==
  IF i > Len(pts)
    THEN sorted
    ELSE SortPointsFrom(InsertByX(sorted, pts[i]), pts, i + 1)

SortByX(pts) == SortPointsFrom(<<>>, pts, 1)

\* Array.from(bySensor.entries()).map(([sid, pts]) => ({ type: "spline",
\*   name: sensorLabel(sid), data: pts.sort(...).map(...),
\*   connectNulls: true }))
\* The arguments pickY and sensorLabel are given by the name of the chart
\* that passes them.
buildSeries(rows, windowStart, windowEnd, chart) ==
  LET bySensor ==
        bySensorFrom(<<>>, Pushes(rows, windowStart, windowEnd, chart), 1)
  IN  [i \in 1..Len(bySensor) |->
         [type |-> "spline",
          name |-> sensorLabel(chart, bySensor[i].k),
          data |-> SortByX(bySensor[i].v),
          connectNulls |-> TRUE]]

----------------------------------------------------------------------------
(* buildModeBands *)

MODE_COLORS ==
  (0 :> "rgba(148,163,184,0.18)") @@ (1 :> "rgba(59,130,246,0.18)")
    @@ (2 :> "rgba(34,197,94,0.20)") @@ (3 :> "rgba(250,204,21,0.20)")
    @@ (4 :> "rgba(56,189,248,0.20)") @@ (5 :> "rgba(248,113,113,0.22)")

\* Faulty variant of isInterlock: the alias "4" is not a control channel.
isInterlockNoAlias(r) == StringOfId(r.sensor_id) = "interlock_4c"

\* const sid = String(r.sensor_id);
\* return sid === "interlock_4c" || sid === "4";
isInterlock(r) ==
  LET sid == StringOfId(r.sensor_id)
  IN  sid = "interlock_4c" \/ sid = "4"

\* Faulty variant of arraysOfBuildModeBands: the chain is
\* rows.sort(...).filter(...).filter(...), which sorts rows itself.
arraysOfBuildModeBandsSortFirst(rows, windowStart, windowEnd) ==
  LET sorted == SortByTimestamp(rows)
  IN  [rows |-> sorted,
       interlockRows |->
         SelectSeq(SelectSeq(sorted, isInterlock),
                   LAMBDA r : r.timestamp >= windowStart
                                /\ r.timestamp <= windowEnd)]

\* Faulty variant of arraysOfBuildModeBands: the filter on the window is
\* missing.
arraysOfBuildModeBandsNoWindow(rows, windowStart, windowEnd) ==
  [rows |-> rows, interlockRows |-> SortByTimestamp(SelectSeq(rows, isInterlock))]

\* The two arrays of rows.filter(...).filter(...).sort(...) once the chain
\* has run: Array.prototype.filter returns a new array and leaves the one
\* it is called on, Array.prototype.sort sorts the array it is called on,
\* here the one the second filter returned.
arraysOfBuildModeBands(rows, windowStart, windowEnd) ==
  LET filtered == SelectSeq(SelectSeq(rows, isInterlock),
                            LAMBDA r : r.timestamp >= windowStart
                                         /\ r.timestamp <= windowEnd)
  IN  [rows |-> rows, interlockRows |-> SortByTimestamp(filtered)]

\* rows.filter(...).filter(...).sort((a, b) => a.timestamp - b.timestamp)
interlockRows(rows, windowStart, windowEnd) ==
  arraysOfBuildModeBands(rows, windowStart, windowEnd).interlockRows

\* const mode = typeof r.mode === "number" ? r.mode : null;
\* mode == null || MODE_COLORS[mode] == null  (typeof NaN is "number", and
\* MODE_COLORS[NaN] is undefined)
unclassified(r) ==
  \/ r.mode = NoValue
  \/ r.mode = NaN
  \/ ValueOf(r.mode) \notin DOMAIN MODE_COLORS

band(from, to, mode) == [from |-> from, to |-> to, color |-> MODE_COLORS[mode]]

\* Faulty variant of bandStep: an unclassified reading is skipped and the
\* band stays open.
bandStepKeepsOpen(st, r) ==
  LET t == r.timestamp
  IN  IF unclassified(r)
        THEN st
        ELSE IF st.currentMode = NoValue
               THEN [st EXCEPT !.currentMode = r.mode, !.currentStart = Some(t)]
               ELSE IF ValueOf(r.mode) # ValueOf(st.currentMode)
                      THEN [bands |-> Append(st.bands,
                                             band(ValueOf(st.currentStart), t,
                                                  ValueOf(st.currentMode))),
                            currentMode |-> r.mode,
                            currentStart |-> Some(t)]
                      ELSE st

\* Faulty variant of bandStep: a change of mode does not close the band.
bandStepIgnoresChange(st, r) ==
  LET t == r.timestamp
  IN  IF unclassified(r)
        THEN IF st.currentMode # NoValue /\ st.currentStart # NoValue
               THEN [bands |-> Append(st.bands,
                                      band(ValueOf(st.currentStart), t,
                                           ValueOf(st.currentMode))),
                     currentMode |-> NoValue,
                     currentStart |-> NoValue]
               ELSE st
        ELSE IF st.currentMode = NoValue
               THEN [st EXCEPT !.currentMode = r.mode, !.currentStart = Some(t)]
               ELSE st

\* Faulty variant of bandStep: a mode that has no colour is skipped and the
\* band stays open.
bandStepSkipsOutOfPalette(st, r) ==
  LET t == r.timestamp
  IN  IF r.mode = NoValue \/ r.mode = NaN
        THEN IF st.currentMode # NoValue /\ st.currentStart # NoValue
               THEN [bands |-> Append(st.bands,
                                      band(ValueOf(st.currentStart), t,
                                           ValueOf(st.currentMode))),
                     currentMode |-> NoValue,
                     currentStart |-> NoValue]
               ELSE st
        ELSE IF ValueOf(r.mode) \notin DOMAIN MODE_COLORS
               THEN st
               ELSE IF st.currentMode = NoValue
                      THEN [st EXCEPT !.currentMode = r.mode,
                                      !.currentStart = Some(t)]
                      ELSE IF ValueOf(r.mode) # ValueOf(st.currentMode)
                             THEN [bands |-> Append(st.bands,
                                                    band(ValueOf(st.currentStart),
                                                         t,
                                                         ValueOf(st.currentMode))),
                                   currentMode |-> r.mode,
                                   currentStart |-> Some(t)]
                             ELSE st

\* Faulty variant of bandStep: opening a band emits a band of no width at
\* the reading that opens it.
bandStepEmitsOnOpen(st, r) ==
  LET t == r.timestamp
  IN  IF unclassified(r)
        THEN IF st.currentMode # NoValue /\ st.currentStart # NoValue
               THEN [bands |-> Append(st.bands,
                                      band(ValueOf(st.currentStart), t,
                                           ValueOf(st.currentMode))),
                     currentMode |-> NoValue,
                     currentStart |-> NoValue]
               ELSE st
        ELSE IF st.currentMode = NoValue
               THEN [bands |-> Append(st.bands, band(t, t, ValueOf(r.mode))),
                     currentMode |-> r.mode,
                     currentStart |-> Some(t)]
               ELSE IF ValueOf(r.mode) # ValueOf(st.currentMode)
                      THEN [bands |-> Append(st.bands,
                                             band(ValueOf(st.currentStart), t,
                                                  ValueOf(st.currentMode))),
                            currentMode |-> r.mode,
                            currentStart |-> Some(t)]
                      ELSE st

\* Faulty variant of bandStep: every classified reading met while a band is
\* open closes it and opens the next one, whether the mode changes or not.
bandStepSplitsRuns(st, r) ==
  LET t == r.timestamp
  IN  IF unclassified(r)
        THEN IF st.currentMode # NoValue /\ st.currentStart # NoValue
               THEN [bands |-> Append(st.bands,
                                      band(ValueOf(st.currentStart), t,
                                           ValueOf(st.currentMode))),
                     currentMode |-> NoValue,
                     currentStart |-> NoValue]
               ELSE st
        ELSE IF st.currentMode = NoValue
               THEN [st EXCEPT !.currentMode = r.mode, !.currentStart = Some(t)]
               ELSE [bands |-> Append(st.bands,
                                      band(ValueOf(st.currentStart), t,
                                           ValueOf(st.currentMode))),
                     currentMode |-> r.mode,
                     currentStart |-> Some(t)]

\* The body of for (const r of interlockRows) on the loop's variables
\* st = [bands, currentMode, currentStart].
bandStep(st, r) ==
  LET t == r.timestamp
  IN  IF unclassified(r)
        THEN IF st.currentMode # NoValue /\ st.currentStart # NoValue
               THEN [bands |-> Append(st.bands,
                                      band(ValueOf(st.currentStart), t,
                                           ValueOf(st.currentMode))),
                     currentMode |-> NoValue,
                     currentStart |-> NoValue]
               ELSE st
        ELSE IF st.currentMode = NoValue
               THEN [st EXCEPT !.currentMode = r.mode, !.currentStart = Some(t)]
               ELSE IF ValueOf(r.mode) # ValueOf(st.currentMode)
                      THEN [bands |-> Append(st.bands,
                                             band(ValueOf(st.currentStart), t,
                                                  ValueOf(st.currentMode))),
                            currentMode |-> r.mode,
                            currentStart |-> Some(t)]
                      ELSE st

RECURSIVE bandsFrom(_, _, _)
bandsFrom(st, rows, i) ==
  IF i > Len(rows) THEN st ELSE bandsFrom(bandStep(st, rows[i]), rows, i + 1)

\* Faulty variant of buildModeBands: the readings are scanned in the order
\* of the store.
buildModeBandsUnsorted(rows, windowStart, windowEnd) ==
  LET scanned ==
        SelectSeq(SelectSeq(rows, isInterlock),
                  LAMBDA r : r.timestamp >= windowStart
                               /\ r.timestamp <= windowEnd)
      st == bandsFrom([bands |-> <<>>, currentMode |-> NoValue,
                       currentStart |-> NoValue], scanned, 1)
  IN  IF st.currentMode # NoValue /\ st.currentStart # NoValue
        THEN Append(st.bands, band(ValueOf(st.currentStart), windowEnd,
                                   ValueOf(st.currentMode)))
        ELSE st.bands

buildModeBands(rows, windowStart, windowEnd) ==
  LET st == bandsFrom([bands |-> <<>>, currentMode |-> NoValue,
                       currentStart |-> NoValue],
                      interlockRows(rows, windowStart, windowEnd), 1)
  IN  IF st.currentMode # NoValue /\ st.currentStart # NoValue
        THEN Append(st.bands, band(ValueOf(st.currentStart), windowEnd,
                                   ValueOf(st.currentMode)))
        ELSE st.bands

----------------------------------------------------------------------------
(* getLastestIAQData *)

targetSensors == <<"before_scrub", "after_scrub", "interlock_4c">>

fallbackMap ==
  LET fallback(sid, label) ==
        [id |-> StrId("-"), label |-> label, sensor_id |-> sid,
         timestamp |-> Some(0), co2 |-> NoValue, humidity |-> NoValue,
         temperature |-> NoValue, mode |-> NoValue]
  IN  ("before_scrub" :> fallback("before_scrub", "Inlet (Before Scrub)"))
        @@ ("after_scrub" :> fallback("after_scrub", "Outlet (After Scrub)"))
        @@ ("interlock_4c" :> fallback("interlock_4c", "Interlock 4C"))

\* The body of for (const el of rows): latest always has an entry for each
\* target sensor, so !current is never true. The timestamp of a snapshot is
\* an optional value like its measurements, so that a null timestamp can be
\* told from the 0 of the fallback.
latestStep(latest, el) ==
  LET sid == StringOfId(el.sensor_id)
  IN  IF \A i \in 1..Len(targetSensors) : targetSensors[i] # sid
        THEN latest
        ELSE IF el.timestamp > ValueOf(latest[sid].timestamp)
               THEN [latest EXCEPT ![sid] =
                       [id |-> IF el.id # NoId
                                 THEN el.id
                                 ELSE StrId(sid \o "-" \o ToString(el.timestamp)),
                        label |-> fallbackMap[sid].label,
                        sensor_id |-> sid,
                        timestamp |-> Some(el.timestamp),
                        co2 |-> el.co2,
                        humidity |-> el.humidity,
                        temperature |-> IF el.temperature # NoValue
                                          THEN el.temperature
                                          ELSE el.temp,
                        mode |-> el.mode]]
               ELSE latest

RECURSIVE latestFrom(_, _, _)
latestFrom(latest, rows, i) ==
  IF i > Len(rows)
    THEN latest
    ELSE latestFrom(latestStep(latest, rows[i]), rows, i + 1)

\* Faulty variant of getLastestIAQData: a sensor without a reading is left
\* out of the latest values.
getLastestIAQDataOmitsEmpty(rows) ==
  LET latest == latestFrom(fallbackMap, rows, 1)
  IN  SelectSeq(<<latest["before_scrub"], latest["after_scrub"],
                  latest["interlock_4c"]>>,
                LAMBDA l : l.id # StrId("-"))

\* What getLastestIAQData hands to setNewestIAQ.
getLastestIAQData(rows) ==
  LET latest == latestFrom(fallbackMap, rows, 1)
  IN  <<latest["before_scrub"], latest["after_scrub"], latest["interlock_4c"]>>

----------------------------------------------------------------------------
(* The views of a render *)

\* const windowStart = nowMs - timeHis;
windowStart == nowMs - timeHis

modeBands == buildModeBands(iaq, windowStart, nowMs)

co2Series == buildSeries(iaq, windowStart, nowMs, "co2")

tempSeries == buildSeries(iaq, windowStart, nowMs, "temperature")

humidSeries == buildSeries(iaq, windowStart, nowMs, "humidity")

\* Faulty variant of isNewestIAQ: the latest values are taken from the
\* readings inside the chart window only.
isNewestIAQInWindow ==
  getLastestIAQData(SelectSeq(iaq, LAMBDA r : inWindow(r, windowStart, nowMs)))

\* useEffect(() => { getLastestIAQData(iaq); }, [iaq]): the state
\* isNewestIAQ once the effect of a render has run.
isNewestIAQ == getLastestIAQData(iaq)

----------------------------------------------------------------------------
(* Bounds and inputs *)

\* Date.now() when the page is mounted (epoch shifted).
StartTime == 700000000

\* How far Date.now() moves in one step of the clock, and how many steps.
ClockStep == 1000

MaxClock == 1

\* Requests of one kind that may be in flight together.
MaxInflight == 1

\* Rows in one response of the server.
MaxBatch == 2

\* Rows of the store and of the batch together, where the updater is
\* exercised on its own; rows of the store, where the views are.
MaxRows == 3

\* Timestamps where the updater and the views are exercised on their own.
MaxTime == 1

InitialTimeHis == 1800000

\* The retention buttons: 7DAYS, 1DAYS, 12HR, 4HR, 1HR, 30MIN.
Retentions ==
  {604800000, 24 * 60 * 60 * 1000, 12 * 60 * 60 * 1000, 4 * 60 * 60 * 1000,
   3600000, 1800000}

\* The buttons clicked in the running dashboard: 7DAYS, 1HR and 30MIN, a
\* window wider than the initial one, the next one up and the initial one.
RetentionsFollowed == Retentions \cap {604800000, 3600000, 1800000}

SeqsUpTo(S, n) == UNION {[1..m -> S] : m \in 0..n}

\* What the server may send in the running dashboard.
ServerRows ==
  { Row(StrId("a"), "before_scrub", StartTime - 1000, Some(50000)),
    Row(StrId("a"), "before_scrub", StartTime - 1000, Some(52000)),
    Row(NoId, "interlock_4c", StartTime - InitialTimeHis, Some(40000)) }

\* One response: up to MaxBatch of these rows in any order, no row twice.
ServerBatches ==
  { d \in SeqsUpTo(ServerRows, MaxBatch) :
      \A i, j \in 1..Len(d) : d[i] = d[j] => i = j }

\* What a server whose sensors miss metrics may send: a before_scrub and an
\* after_scrub reading without co2, and a before_scrub reading without
\* temperature and humidity, all inside the first window.
GapRows ==
  { [Row(NoId, "before_scrub", StartTime - 1000, NoValue) EXCEPT
       !.temperature = Some(2500), !.humidity = Some(4000)],
    [Row(NoId, "after_scrub", StartTime - 1000, NoValue) EXCEPT
       !.temperature = Some(2500), !.humidity = Some(4000)],
    Row(NoId, "before_scrub", StartTime - 2000, Some(50000)) }

GapBatches ==
  { d \in SeqsUpTo(GapRows, MaxBatch) :
      \A i, j \in 1..Len(d) : d[i] = d[j] => i = j }

\* Rows for the updater on its own: explicit numeric id 7 or no id, one
\* sensor, small timestamps.
UpdaterRows ==
  { Row(NumId(7), "s", t, Some(c)) : t \in 0..MaxTime, c \in {10, 20} }
    \cup { Row(NoId, "s", t, Some(10)) : t \in 0..MaxTime }

UpdaterInputs ==
  { pd \in SeqsUpTo(UpdaterRows, MaxRows) \X SeqsUpTo(UpdaterRows, MaxRows) :
      Len(pd[1]) + Len(pd[2]) <= MaxRows /\ Len(pd[2]) >= 1 }

\* The two buttons clicked where the full fetches race: 1HR and 30MIN.
RetentionsClicked == {3600000, 1800000}

\* The responses of the server where the full fetches race.
RetentionBatches ==
  {<<>>, <<Row(NoId, "interlock_4c", StartTime - 1000, Some(40000))>>}

\* The last handler that ran and the response it was given.
Event(op, d) == [op |-> op, d |-> d, start |-> 0]

\* The same for onSuccess, with the `start` its request was sent with.
FetchEvent(op, d, start) == [op |-> op, d |-> d, start |-> start]

\* The same where the updater is exercised on its own, with the array the
\* updater was given (its argument prev) as the call leaves it.
UpdaterEvent(op, prev, d) == [op |-> op, prev |-> prev, d |-> d]

----------------------------------------------------------------------------
(* The dashboard *)

Init ==
  /\ iaq = <<>>
  /\ timeHis = InitialTimeHis
  /\ now = StartTime
  /\ nowMs = StartTime
  /\ latesttimeRef = 0
  /\ swrInflight = {}
  /\ axiosInflight = {}
  /\ ev = Event("init", <<>>)

\* Date.now() moves on.
ClockAdvance ==
  /\ now < StartTime + MaxClock * ClockStep
  /\ now' = now + ClockStep
  /\ ev' = Event("clock", <<>>)
  /\ UNCHANGED <<iaq, timeHis, nowMs, latesttimeRef, swrInflight,
                 axiosInflight>>

\* setInterval(() => setNowMs(Date.now()), intervalMs)
useNowTicker ==
  /\ nowMs # now
  /\ nowMs' = now
  /\ ev' = Event("useNowTicker", <<>>)
  /\ UNCHANGED <<iaq, timeHis, now, latesttimeRef, swrInflight,
                 axiosInflight>>

\* useSWR sends the periodic request (refreshInterval, a new key, or the
\* mutate() of the timeHis effect) with start: Date.now() - timeHis. useSWR
\* hands onSuccess the response of its current key only, so the request of
\* a new key takes the place of the one in flight.
postFetcher ==
  /\ now - timeHis \notin swrInflight
  /\ swrInflight' = {now - timeHis}
  /\ ev' = Event("postFetcher", <<>>)
  /\ UNCHANGED <<iaq, timeHis, now, nowMs, latesttimeRef, axiosInflight>>

\* postFetcher throws (the response is not ok, or fetch rejects): useSWR
\* never calls onSuccess.
postFetcherError ==
  \E start \in swrInflight :
    /\ swrInflight' = swrInflight \ {start}
    /\ ev' = Event("postFetcherError", <<>>)
    /\ UNCHANGED <<iaq, timeHis, now, nowMs, latesttimeRef, axiosInflight>>

\* Faulty variant of onSuccess: an empty response prunes the store.
onSuccessPrunesOnEmpty(start, d) ==
  /\ start \in swrInflight
  /\ swrInflight' = swrInflight \ {start}
  /\ IF Len(d) = 0
       THEN /\ iaq' = FilterCutoff(iaq, now - timeHis)
            /\ ev' = FetchEvent("onSuccessEmpty", d, start)
            /\ UNCHANGED latesttimeRef
       ELSE /\ latesttimeRef' = adjusted(d)[Len(d)].timestamp
            /\ iaq' = MergeUpdater(iaq, adjusted(d), now - timeHis)
            /\ ev' = FetchEvent("onSuccess", d, start)
  /\ UNCHANGED <<timeHis, now, nowMs, axiosInflight>>

\* Faulty variant of onSuccess: the cutoff is the `start` of the request.
onSuccessRequestCutoff(start, d) ==
  /\ start \in swrInflight
  /\ swrInflight' = swrInflight \ {start}
  /\ IF Len(d) = 0
       THEN /\ ev' = FetchEvent("onSuccessEmpty", d, start)
            /\ UNCHANGED <<iaq, latesttimeRef>>
       ELSE /\ latesttimeRef' = adjusted(d)[Len(d)].timestamp
            /\ iaq' = MergeUpdater(iaq, adjusted(d), start)
            /\ ev' = FetchEvent("onSuccess", d, start)
  /\ UNCHANGED <<timeHis, now, nowMs, axiosInflight>>

\* onSuccess: (d: Row[]) => { if (!d?.length) return; ... setIaq(...) }
\* for the response to the request sent with `start`. useSWR calls the
\* onSuccess of the latest render, so timeHis is the state at this moment,
\* and Date.now() is read inside the updater.
onSuccess(start, d) ==
  /\ start \in swrInflight
  /\ swrInflight' = swrInflight \ {start}
  /\ IF Len(d) = 0
       THEN /\ ev' = FetchEvent("onSuccessEmpty", d, start)
            /\ UNCHANGED <<iaq, latesttimeRef>>
       ELSE /\ latesttimeRef' = adjusted(d)[Len(d)].timestamp
            /\ iaq' = MergeUpdater(iaq, adjusted(d), now - timeHis)
            /\ ev' = FetchEvent("onSuccess", d, start)
  /\ UNCHANGED <<timeHis, now, nowMs, axiosInflight>>

\* onClick of a retention button: setTimeHis(ms); handlerStartGet(ms) up to
\* its await, which sends the request with rangeSelected: ms. At most
\* `inflight` such requests are followed at a time, told apart by their
\* rangeSelected.
onClick(ms, inflight) ==
  /\ Cardinality(axiosInflight) < inflight
  /\ ms \notin axiosInflight
  /\ timeHis' = ms
  /\ axiosInflight' = axiosInflight \cup {ms}
  /\ ev' = Event("onClick", <<>>)
  /\ UNCHANGED <<iaq, now, nowMs, latesttimeRef, swrInflight>>

\* handlerStartGet(ms) after its await, for the response to its request:
\* setIaq(newData.data)
handlerStartGet(ms, data) ==
  /\ ms \in axiosInflight
  /\ axiosInflight' = axiosInflight \ {ms}
  /\ iaq' = data
  /\ ev' = Event("handlerStartGet", data)
  /\ UNCHANGED <<timeHis, now, nowMs, latesttimeRef, swrInflight>>

\* Faulty variant of handlerStartGetError: the failure empties the store.
handlerStartGetErrorClears ==
  \E ms \in axiosInflight :
    /\ axiosInflight' = axiosInflight \ {ms}
    /\ iaq' = <<>>
    /\ ev' = Event("handlerStartGetError", <<>>)
    /\ UNCHANGED <<timeHis, now, nowMs, latesttimeRef, swrInflight>>

\* axios.post rejects: the await throws and setIaq is not reached.
handlerStartGetError ==
  \E ms \in axiosInflight :
    /\ axiosInflight' = axiosInflight \ {ms}
    /\ ev' = Event("handlerStartGetError", <<>>)
    /\ UNCHANGED <<iaq, timeHis, now, nowMs, latesttimeRef, swrInflight>>

\* The dashboard with a server that answers with the responses `batches`,
\* the retention buttons `retentions` and at most `inflight` full fetches
\* in flight.
Dashboard(batches, retentions, inflight) ==
  \/ ClockAdvance
  \/ useNowTicker
  \/ postFetcher
  \/ postFetcherError
  \/ \E start \in swrInflight, d \in batches : onSuccess(start, d)
  \/ \E ms \in retentions : onClick(ms, inflight)
  \/ \E ms \in axiosInflight, data \in batches : handlerStartGet(ms, data)
  \/ handlerStartGetError

Next == Dashboard(ServerBatches, RetentionsFollowed, MaxInflight)

Spec == Init /\ [][Next]_vars

\* The dashboard with a server whose readings miss metrics.
NextGaps == Dashboard(GapBatches, RetentionsFollowed, MaxInflight)

SpecGaps == Init /\ [][NextGaps]_vars

\* The dashboard with two retention buttons, one more full fetch in flight
\* and a server with one reading.
NextRetention ==
  Dashboard(RetentionBatches, RetentionsClicked, MaxInflight + 1)

SpecRetention == Init /\ [][NextRetention]_vars

----------------------------------------------------------------------------
(* The setIaq updater on its own: any store, any non-empty batch, any     *)
(* cutoff around the timestamps.                                          *)

UpdaterInit ==
  /\ timeHis = InitialTimeHis
  /\ now \in {InitialTimeHis + c : c \in 0..(MaxTime + 1)}
  /\ nowMs = now
  /\ latesttimeRef = 0
  /\ swrInflight = {}
  /\ axiosInflight = {}
  /\ \E pd \in UpdaterInputs :
       /\ iaq = pd[1]
       /\ ev = UpdaterEvent("input", pd[1], pd[2])

\* setIaq((prev) => ...) with the batch ev.d
UpdaterApply ==
  /\ ev.op = "input"
  /\ iaq' = MergeUpdater(iaq, ev.d, now - timeHis)
  /\ ev' = UpdaterEvent("merged", arraysOfSpread(iaq, ev.d).prev, ev.d)
  /\ UNCHANGED <<timeHis, now, nowMs, latesttimeRef, swrInflight,
                 axiosInflight>>

\* the same batch, merged once more with the same cutoff
UpdaterAgain ==
  /\ ev.op = "merged"
  /\ iaq' = MergeUpdater(iaq, ev.d, now - timeHis)
  /\ ev' = UpdaterEvent("remerged", arraysOfSpread(iaq, ev.d).prev, ev.d)
  /\ UNCHANGED <<timeHis, now, nowMs, latesttimeRef, swrInflight,
                 axiosInflight>>

UpdaterNext == UpdaterApply \/ UpdaterAgain

SpecUpdater == UpdaterInit /\ [][UpdaterNext]_vars

----------------------------------------------------------------------------
(* The views on their own: any store, in any order, and a window around   *)
(* its timestamps. nowMs is the end of the window and timeHis its width.  *)

\* What a render computed from the store.
ViewEvent(op, co2, temp, humid, bands) ==
  [op |-> op, co2Series |-> co2, tempSeries |-> temp, humidSeries |-> humid,
   modeBands |-> bands]

\* A reading of the sensor number n.
RowOfNumber(id, n, ts, co2) == [Row(id, "", ts, co2) EXCEPT !.sensor_id = NumId(n)]

\* Readings for the series: before_scrub with co2 missing or present at
\* every time, once NaN and once 0, once with the legacy temp only and once
\* with temperature and temp; the sensor "9" that has no label; the sensor
\* number 4; a sensor named as a member of Object.prototype.
SeriesRows ==
  { Row(NoId, "before_scrub", t, c) :
      t \in 0..(MaxTime + 1), c \in {NoValue, Some(50000)} }
    \cup { Row(NoId, "before_scrub", 1, NaN),
           Row(NoId, "before_scrub", 1, Some(0)),
           [Row(NoId, "before_scrub", 1, NoValue) EXCEPT !.temp = Some(25)],
           [Row(NoId, "before_scrub", 1, NoValue) EXCEPT
              !.temperature = Some(24), !.temp = Some(25),
              !.humidity = Some(40)],
           RowOfNumber(NoId, 4, 1, Some(45000)),
           Row(NoId, "constructor", 1, Some(47000)) }
    \cup { Row(NoId, "9", t, Some(41000)) : t \in 0..MaxTime }

\* The windows [windowStart, windowEnd] of the series: one whose two ends
\* are timestamps of readings with readings outside, one that holds all.
SeriesWindows == {<<1, MaxTime>>, <<0, MaxTime + 1>>}

\* A reading that carries a mode only.
ModeRow(sid, ts, mode) == [Row(NoId, sid, ts, NoValue) EXCEPT !.mode = mode]

\* Readings for the bands: interlock_4c with no mode, mode 1 or mode 3 at
\* every time, once mode 2 and once the mode 7 that has no colour; the
\* alias "4" as a string and as a number; another sensor that reports a
\* mode too.
BandRows ==
  { ModeRow("interlock_4c", t, m) :
      t \in 0..(MaxTime + 1), m \in {NoValue, Some(1), Some(3)} }
    \cup { ModeRow("interlock_4c", 0, Some(2)),
           ModeRow("interlock_4c", 1, Some(7)),
           ModeRow("4", 1, Some(3)),
           [ModeRow("", 1, Some(1)) EXCEPT !.sensor_id = NumId(4)],
           ModeRow("before_scrub", 1, Some(3)) }

\* The windows of the bands: one that ends after every reading, one with a
\* reading before it and a reading at its end, one with a reading before it
\* and a reading after it.
BandWindows == {<<0, MaxTime + 2>>, <<1, MaxTime + 1>>, <<1, MaxTime>>}

ViewInit(rows, windows) ==
  /\ iaq \in SeqsUpTo(rows, MaxRows)
  /\ \E w \in windows : nowMs = w[2] /\ timeHis = w[2] - w[1]
  /\ now = nowMs
  /\ latesttimeRef = 0
  /\ swrInflight = {}
  /\ axiosInflight = {}
  /\ ev = ViewEvent("mount", <<>>, <<>>, <<>>, <<>>)

\* One render: the useMemo values of the store and the window. The array
\* iaq is what the calls leave of it: buildModeBands is the only one that
\* calls a method that writes to an array (sort) in a chain that starts at
\* its argument; buildSeries sorts the arrays it made for bySensor, and
\* getLastestIAQData only reads.
Render ==
  /\ ev.op = "mount"
  /\ ev' = ViewEvent("render", co2Series, tempSeries, humidSeries, modeBands)
  /\ iaq' = arraysOfBuildModeBands(iaq, windowStart, nowMs).rows
  /\ UNCHANGED <<timeHis, now, nowMs, latesttimeRef, swrInflight,
                 axiosInflight>>

SeriesInit == ViewInit(SeriesRows, SeriesWindows)

SpecSeries == SeriesInit /\ [][Render]_vars

BandsInit == ViewInit(BandRows, BandWindows)

SpecBands == BandsInit /\ [][Render]_vars

\* Readings for the latest values: before_scrub and interlock_4c at every
\* time, before_scrub twice at the last time with two values, after_scrub
\* with an id and with the legacy temp, the alias "4" as a string and as a
\* number after the readings of interlock_4c, a sensor that is not tracked.
LatestRows ==
  { [Row(NoId, sid, t, Some(50000)) EXCEPT !.mode = Some(1)] :
      sid \in {"before_scrub", "interlock_4c"}, t \in 0..(MaxTime + 1) }
    \cup { [Row(StrId("a"), "after_scrub", 1, Some(40000)) EXCEPT
              !.temperature = Some(2400), !.humidity = Some(4000)],
           [Row(NoId, "after_scrub", MaxTime + 1, NoValue) EXCEPT
              !.temp = Some(2500)],
           Row(NoId, "before_scrub", MaxTime + 1, Some(60000)),
           ModeRow("4", MaxTime + 2, Some(3)),
           [ModeRow("", MaxTime + 2, Some(3)) EXCEPT !.sensor_id = NumId(4)],
           Row(NoId, "9", MaxTime + 2, Some(41000)) }

\* The windows of the latest values: one that holds every reading, one that
\* starts after all of them.
LatestWindows == {<<0, MaxTime + 2>>, <<MaxTime + 3, MaxTime + 3>>}

LatestInit == ViewInit(LatestRows, LatestWindows)

SpecLatest == LatestInit /\ [][Render]_vars

----------------------------------------------------------------------------
(* The functions that are handed the store, each on its own: a render of  *)
(* any store in any order, and the updater on any store and batch.        *)

FrameInit == BandsInit \/ UpdaterInit

FrameNext == Render \/ UpdaterApply

SpecFrame == FrameInit /\ [][FrameNext]_vars

----------------------------------------------------------------------------
(* Vocabulary of the properties, stated without the operators above *)

\* The identity of a reading: String(id) when the id is present, else
\* sensor_id-timestamp.
identity(r) ==
  IF r.id = NoId
    THEN (IF r.sensor_id.k = "num"
            THEN ToString(r.sensor_id.n)
            ELSE r.sensor_id.s) \o "-" \o ToString(r.timestamp)
    ELSE IF r.id.k = "num" THEN ToString(r.id.n) ELSE r.id.s

Range(rows) == {rows[i] : i \in 1..Len(rows)}

Identities(rows) == {identity(rows[i]) : i \in 1..Len(rows)}

PositionsOf(rows, k) == {i \in 1..Len(rows) : identity(rows[i]) = k}

FirstPosition(rows, k) ==
  CHOOSE i \in PositionsOf(rows, k) : \A j \in PositionsOf(rows, k) : i <= j

LastPosition(rows, k) ==
  CHOOSE i \in PositionsOf(rows, k) : \A j \in PositionsOf(rows, k) : j <= i

\* The reading of identity k that arrived last in rows.
LastOf(rows, k) == rows[LastPosition(rows, k)]

\* The readings of identity k in the store.
Held(k) == {iaq[i] : i \in PositionsOf(iaq, k)}

\* The cutoff of the updater: Date.now() - timeHis.
Cutoff == now - timeHis

AgeBound == \A i \in 1..Len(iaq) : iaq[i].timestamp >= Cutoff

\* rows without the readings older than c, in the same order
Pruned(rows, c) == SelectSeq(rows, LAMBDA r : r.timestamp >= c)

\* The identities of the readings of the updater's inputs in the order
\* JavaScript compares strings (by code unit): "7" < "s-0" < "s-1" < ...;
\* the timestamps of these inputs have one digit.
IdentitiesInStringOrder ==
  <<"7">> \o [t \in 1..(MaxTime + 1) |-> "s-" \o ToString(t - 1)]

StringRank(k) ==
  CHOOSE i \in 1..Len(IdentitiesInStringOrder) : IdentitiesInStringOrder[i] = k

StringLess(a, b) == StringRank(a) < StringRank(b)

\* [...prev, ...adjusted] of the updater that ran last
Arrived == ev.prev \o ev.d

----------------------------------------------------------------------------
(* C1: identity collision *)

CollidingIdentities == Identities(ev.prev) \cap Identities(ev.d)

\* C1 as claimed: when an incoming reading has the identity of an existing
\* one, the merged store holds the incoming reading (the last one of that
\* identity in the batch) and not the existing one, whatever the timestamps.
C1_IncomingAlwaysHeld ==
  ev.op = "merged" =>
    \A k \in CollidingIdentities : Held(k) = {LastOf(ev.d, k)}

\* C1 amended: the existing reading is never held; the incoming one is held
\* exactly when its timestamp is not below the cutoff, and otherwise the
\* store holds no reading of that identity.
C1_IncomingReplacesExisting ==
  ev.op = "merged" =>
    \A k \in CollidingIdentities :
      Held(k) = IF LastOf(ev.d, k).timestamp >= Cutoff
                  THEN {LastOf(ev.d, k)}
                  ELSE {}

\* An older incoming reading has replaced a newer existing one.
C1_Witness ==
  /\ ev.op = "merged"
  /\ \E k \in CollidingIdentities :
       /\ LastOf(ev.d, k).timestamp < LastOf(ev.prev, k).timestamp
       /\ LastOf(ev.d, k).timestamp >= Cutoff
       /\ LastOf(ev.d, k) \in Range(iaq)
       /\ LastOf(ev.prev, k) \notin Range(iaq)

----------------------------------------------------------------------------
(* C2: duplicate identity inside one batch *)

DuplicatedInBatch ==
  {k \in Identities(ev.d) : Cardinality(PositionsOf(ev.d, k)) >= 2}

\* C2 as claimed: for an identity that occurs several times in the batch the
\* merged store contains exactly one reading, the last of the batch.
C2_ExactlyOneLastOfBatch ==
  ev.op = "merged" =>
    \A k \in DuplicatedInBatch :
      /\ Cardinality(PositionsOf(iaq, k)) = 1
      /\ Held(k) = {LastOf(ev.d, k)}

\* C2 amended: the store contains at most one reading of that identity, none
\* but the last of the batch, and exactly one when the timestamp of that last
\* reading is not below the cutoff.
C2_AtMostOneLastOfBatch ==
  ev.op = "merged" =>
    \A k \in DuplicatedInBatch :
      /\ Held(k) \subseteq {LastOf(ev.d, k)}
      /\ Cardinality(PositionsOf(iaq, k)) =
           IF LastOf(ev.d, k).timestamp >= Cutoff THEN 1 ELSE 0

\* Two different readings of one identity arrived in the batch and only the
\* later one is in the store.
C2_Witness ==
  /\ ev.op = "merged"
  /\ \E k \in DuplicatedInBatch :
       /\ ev.d[FirstPosition(ev.d, k)] # LastOf(ev.d, k)
       /\ Cardinality(PositionsOf(iaq, k)) = 1
       /\ Held(k) = {LastOf(ev.d, k)}

----------------------------------------------------------------------------
(* C4: prune invariant of the merge *)

\* C4: every reading of the result has timestamp >= cutoff, and the reading
\* that arrived last for its identity, from the store or from the batch, is
\* in the result when its timestamp is >= cutoff (equal included).
C4_PruneInvariant ==
  ev.op \in {"merged", "remerged"} =>
    /\ AgeBound
    /\ \A k \in Identities(Arrived) :
         LastOf(Arrived, k).timestamp >= Cutoff =>
           LastOf(Arrived, k) \in Range(iaq)

\* An existing reading at the cutoff was kept and an incoming reading below
\* the cutoff was dropped.
C4_Witness ==
  /\ ev.op = "merged"
  /\ \E i \in 1..Len(ev.prev) :
       ev.prev[i].timestamp = Cutoff /\ ev.prev[i] \in Range(iaq)
  /\ \E j \in 1..Len(ev.d) :
       ev.d[j].timestamp < Cutoff /\ ev.d[j] \notin Range(iaq)

----------------------------------------------------------------------------
(* C5: merge idempotence *)

\* C5: merging the batch again, with the same cutoff, into the result of
\* merging it gives the same readings in the same order.
C5_MergeIdempotent == ev.op = "remerged" => iaq = ev.prev

\* The batch was merged twice into a store that keeps several readings, two
\* of them with the same timestamp, one of them of the batch.
C5_Witness ==
  /\ ev.op = "remerged"
  /\ Len(iaq) >= 2
  /\ \E i \in 1..(Len(iaq) - 1) : iaq[i].timestamp = iaq[i + 1].timestamp
  /\ Range(ev.d) \cap Range(iaq) # {}

----------------------------------------------------------------------------
(* C6: order of the merge output *)

\* C6 as claimed: ascending by timestamp, equal timestamps by identity string.
C6_OrderByTimestampThenIdentity ==
  ev.op \in {"merged", "remerged"} =>
    \A i, j \in 1..Len(iaq) :
      i < j =>
        \/ iaq[i].timestamp < iaq[j].timestamp
        \/ /\ iaq[i].timestamp = iaq[j].timestamp
           /\ StringLess(identity(iaq[i]), identity(iaq[j]))

\* C6 amended: ascending by timestamp, equal timestamps in the order in which
\* their identities first arrived (the store first, then the batch).
C6_OrderByTimestampThenArrival ==
  ev.op \in {"merged", "remerged"} =>
    \A i, j \in 1..Len(iaq) :
      i < j =>
        \/ iaq[i].timestamp < iaq[j].timestamp
        \/ /\ iaq[i].timestamp = iaq[j].timestamp
           /\ FirstPosition(Arrived, identity(iaq[i]))
                < FirstPosition(Arrived, identity(iaq[j]))

\* Two readings with the same timestamp stand in arrival order against the
\* order of their identity strings.
C6_Witness ==
  /\ ev.op = "merged"
  /\ \E i, j \in 1..Len(iaq) :
       /\ i < j
       /\ iaq[i].timestamp = iaq[j].timestamp
       /\ StringLess(identity(iaq[j]), identity(iaq[i]))

----------------------------------------------------------------------------
(* C3: the end-to-end scenario *)

\* Two before_scrub readings of id "a" at T - 1000, co2 500 then 520.
ScenarioBatch ==
  << Row(StrId("a"), "before_scrub", StartTime - 1000, Some(50000)),
     Row(StrId("a"), "before_scrub", StartTime - 1000, Some(52000)) >>

\* onSuccess has just merged the scenario's batch, with the 30 minute window
\* and now = T.
ScenarioMerged ==
  /\ ev.op = "onSuccess"
  /\ ev.d = ScenarioBatch
  /\ timeHis = 1800000
  /\ now = StartTime

ReadingsOfA == {i \in 1..Len(iaq) : iaq[i].id = StrId("a")}

\* C3 as claimed: the store holds exactly one reading of id "a", with co2 520.
C3_ScenarioCo2Raw ==
  ScenarioMerged =>
    /\ Cardinality(ReadingsOfA) = 1
    /\ \A i \in ReadingsOfA : iaq[i].co2 = Some(52000)

\* C3 amended: the store holds exactly one reading of id "a", the second of
\* the batch with the before_scrub offset applied: co2 520 - 66.88 = 453.12.
C3_ScenarioCo2Calibrated ==
  ScenarioMerged =>
    /\ Cardinality(ReadingsOfA) = 1
    /\ \A i \in ReadingsOfA : iaq[i].co2 = Some(52000 - 6688)

\* The scenario has run and id "a" is in the store.
C3_Witness == ScenarioMerged /\ ReadingsOfA # {}

----------------------------------------------------------------------------
(* C7: empty incoming batch *)

\* C7 as claimed: an empty response leaves the store pruned to the current
\* cutoff.
C7_EmptyBatchPrunes ==
  [][ev'.op = "onSuccessEmpty" => iaq' = Pruned(iaq, now' - timeHis')]_vars

\* C7 amended: an empty response leaves the store exactly as it was, the
\* readings older than the current cutoff included.
C7_EmptyBatchLeavesStore == [][ev'.op = "onSuccessEmpty" => iaq' = iaq]_vars

\* An empty response was handled and a reading older than the cutoff is
\* still in the store.
C7_Witness ==
  /\ ev.op = "onSuccessEmpty"
  /\ \E i \in 1..Len(iaq) : iaq[i].timestamp < Cutoff

----------------------------------------------------------------------------
(* C8: identity uniqueness of the store *)

\* C8: in every reachable state the store holds at most one reading per
\* identity.
C8_IdentityUnique ==
  \A i, j \in 1..Len(iaq) : i # j => identity(iaq[i]) # identity(iaq[j])

----------------------------------------------------------------------------
(* C9: age bound of the store *)

\* C9 as claimed: after every successful fetch applied to the store (periodic
\* merge, empty or not, or full fetch) every reading is within the window.
C9_AgeBoundAfterEveryFetch ==
  ev.op \in {"onSuccess", "onSuccessEmpty", "handlerStartGet"} => AgeBound

\* C9 amended: after every periodic fetch with a non-empty response every
\* reading has timestamp >= Date.now() - timeHis.
C9_AgeBoundAfterMerge == ev.op = "onSuccess" => AgeBound

\* A merge has evicted a reading that had fallen out of the window and has
\* kept another.
C9_Witness ==
  /\ ev.op = "onSuccess"
  /\ iaq # <<>>
  /\ \E j \in 1..Len(ev.d) :
       /\ ev.d[j].timestamp < Cutoff
       /\ identity(ev.d[j]) \notin Identities(iaq)

----------------------------------------------------------------------------
(* C10: fetch failure *)

\* C10: a failed fetch, periodic or full, leaves the store as it was.
C10_FailureLeavesStore ==
  [][ev'.op \in {"postFetcherError", "handlerStartGetError"} => iaq' = iaq]_vars

\* A full fetch has failed and the store still holds its readings.
C10_Witness == ev.op = "handlerStartGetError" /\ iaq # <<>>

----------------------------------------------------------------------------
(* C11: superseded fetch *)

\* What Date.now() may return in the running dashboard.
ClockValues == {StartTime + c * ClockStep : c \in 0..MaxClock}

\* The request answered last was sent under another retention window than
\* the one selected now: no Date.now() gives its `start` with this timeHis.
Superseded == ev.start + timeHis \notin ClockValues

\* C11: the merge of a response prunes with the cutoff of the moment the
\* response is applied, Date.now() - timeHis with the retention window then
\* selected, whatever the window was when the request was sent: every
\* reading held is at or after that cutoff, and a reading of the response is
\* held exactly when it is.
C11_ApplyTimeCutoff ==
  ev.op = "onSuccess" =>
    /\ AgeBound
    /\ \A k \in Identities(ev.d) :
         LastOf(ev.d, k).timestamp >= Cutoff <=> k \in Identities(iaq)

\* A response was merged after the retention window had been widened: a
\* reading of it is held that the cutoff of the request would have pruned.
C11_Witness ==
  /\ ev.op = "onSuccess"
  /\ Superseded
  /\ \E j \in 1..Len(ev.d) :
       /\ ev.d[j].timestamp >= Cutoff
       /\ ev.d[j].timestamp < ev.start
       /\ identity(ev.d[j]) \in Identities(iaq)

----------------------------------------------------------------------------
(* Vocabulary of the properties of the series *)

\* The metric of a reading as the chart of co2, of temperature (the legacy
\* field temp when temperature is missing) and of humidity reads it.
Co2Of(r) == r.co2

TemperatureOf(r) == IF r.temperature.k = "none" THEN r.temp ELSE r.temperature

HumidityOf(r) == r.humidity

MetricOf(metric, r) ==
  CASE metric = "co2" -> Co2Of(r)
    [] metric = "temperature" -> TemperatureOf(r)
    [] metric = "humidity" -> HumidityOf(r)

IsNumber(o) == o.k = "num"

\* The reading is inside the window of the render, both ends included.
InsideWindow(r) == nowMs - timeHis <= r.timestamp /\ r.timestamp <= nowMs

\* The places <<i, j>> of the points of a list of series.
Places(series) ==
  UNION {{<<i, j>> : j \in 1..Len(series[i].data)} : i \in 1..Len(series)}

PointAt(series, ij) == series[ij[1]].data[ij[2]]

\* How many times the point <<x, y>> is plotted.
Plotted(series, x, y) ==
  Cardinality({ij \in Places(series) :
                 PointAt(series, ij) = [x |-> x, y |-> y]})

\* The timestamps and the numbers that readings and points carry.
TimesSeen(series) ==
  {iaq[i].timestamp : i \in 1..Len(iaq)}
    \cup {PointAt(series, ij).x : ij \in Places(series)}

NumbersSeen(series, metric) ==
  {MetricOf(metric, iaq[i]).v : i \in {j \in 1..Len(iaq) : IsNumber(MetricOf(metric, iaq[j]))}}
    \cup {PointAt(series, ij).y : ij \in Places(series)}

\* Every point <<x, y>> is plotted once for each reading inside the window
\* whose metric is the number y at timestamp x, and not otherwise.
PlotsExactlyTheWindow(series, metric) ==
  \A x \in TimesSeen(series), y \in NumbersSeen(series, metric) :
    Plotted(series, x, y) =
      Cardinality({i \in 1..Len(iaq) :
                     /\ InsideWindow(iaq[i])
                     /\ IsNumber(MetricOf(metric, iaq[i]))
                     /\ iaq[i].timestamp = x
                     /\ MetricOf(metric, iaq[i]).v = y})

----------------------------------------------------------------------------
(* C12: series window filter *)

\* C12: buildSeries plots a reading if and only if its timestamp is inside
\* [windowStart, windowEnd], both ends included, and the metric selector
\* yields a value for it; checked for the co2 and the temperature charts.
C12_SeriesWindowFilter ==
  ev.op = "render" =>
    /\ PlotsExactlyTheWindow(ev.co2Series, "co2")
    /\ PlotsExactlyTheWindow(ev.tempSeries, "temperature")

\* A render whose store holds a reading with co2 before the window, one at
\* windowStart, one at windowEnd (the same one when the window is a single
\* instant) and one after the window: those at the ends are plotted and
\* those outside are not.
C12_Witness ==
  /\ ev.op = "render"
  /\ \E i, j, k, l \in 1..Len(iaq) :
       /\ IsNumber(iaq[i].co2) /\ iaq[i].timestamp < nowMs - timeHis
       /\ IsNumber(iaq[j].co2) /\ iaq[j].timestamp = nowMs - timeHis
       /\ IsNumber(iaq[k].co2) /\ iaq[k].timestamp = nowMs
       /\ IsNumber(iaq[l].co2) /\ iaq[l].timestamp > nowMs
  /\ Cardinality(Places(ev.co2Series)) =
       Cardinality({i \in 1..Len(iaq) :
                      IsNumber(iaq[i].co2) /\ InsideWindow(iaq[i])})
  /\ Places(ev.co2Series) # {}

----------------------------------------------------------------------------
(* C13: series gap preservation *)

\* The readings inside the window whose metric is missing: null, undefined
\* or NaN.
Gaps(metric) ==
  {i \in 1..Len(iaq) : InsideWindow(iaq[i]) /\ ~IsNumber(MetricOf(metric, iaq[i]))}

\* The readings inside the window that carry a number at timestamp x.
NumbersAt(metric, x) ==
  {i \in 1..Len(iaq) :
     /\ InsideWindow(iaq[i])
     /\ IsNumber(MetricOf(metric, iaq[i]))
     /\ iaq[i].timestamp = x}

\* No point stands for a gap: at the timestamp of a gap the points are those
\* of the readings that carry a number there, the points at y = 0 those of
\* the readings that carry 0; and every reading that carries a number is
\* plotted.
GapsPreserved(series, metric) ==
  /\ \A g \in Gaps(metric) :
       LET x == iaq[g].timestamp
       IN  /\ Cardinality({ij \in Places(series) : PointAt(series, ij).x = x})
                = Cardinality(NumbersAt(metric, x))
           /\ Plotted(series, x, 0)
                = Cardinality({i \in NumbersAt(metric, x) : MetricOf(metric, iaq[i]).v = 0})
  /\ \A i \in 1..Len(iaq) :
       InsideWindow(iaq[i]) /\ IsNumber(MetricOf(metric, iaq[i])) =>
         Plotted(series, iaq[i].timestamp, MetricOf(metric, iaq[i]).v) >= 1

----------------------------------------------------------------------------
(* C14: a missing metric end to end *)

\* The channel of a reading as a string.
ChannelOf(r) ==
  IF r.sensor_id.k = "num" THEN ToString(r.sensor_id.n) ELSE r.sensor_id.s

\* The chart has no point for the reading r: the points at its timestamp
\* are at most as many as the other readings held at that timestamp.
NotPlotted(series, r) ==
  Cardinality({ij \in Places(series) : PointAt(series, ij).x = r.timestamp})
    <= Cardinality({i \in 1..Len(iaq) :
                      /\ iaq[i].timestamp = r.timestamp
                      /\ identity(iaq[i]) # identity(r)})

\* The entries of the latest snapshot taken from the reading r.
SnapshotOf(r) ==
  {i \in 1..Len(isNewestIAQ) :
     /\ isNewestIAQ[i].sensor_id = ChannelOf(r)
     /\ isNewestIAQ[i].timestamp = Some(r.timestamp)}

\* C14: a reading that arrives from a periodic fetch with co2, temperature
\* or humidity absent never gives a point in the chart of that metric nor a
\* number for that metric in the latest snapshot, whatever its channel.
C14_MissingNeverNumber ==
  ev.op = "onSuccess" =>
    \A j \in 1..Len(ev.d) :
      LET r == ev.d[j]
      IN  j = LastPosition(ev.d, identity(r)) =>
            /\ ~IsNumber(Co2Of(r)) =>
                 /\ NotPlotted(co2Series, r)
                 /\ \A i \in SnapshotOf(r) : ~IsNumber(isNewestIAQ[i].co2)
            /\ ~IsNumber(TemperatureOf(r)) =>
                 /\ NotPlotted(tempSeries, r)
                 /\ \A i \in SnapshotOf(r) :
                      ~IsNumber(isNewestIAQ[i].temperature)
            /\ ~IsNumber(HumidityOf(r)) =>
                 /\ NotPlotted(humidSeries, r)
                 /\ \A i \in SnapshotOf(r) : ~IsNumber(isNewestIAQ[i].humidity)

----------------------------------------------------------------------------
(* C15: series grouping and order *)

\* The readings that survive the filters of the chart of a metric.
Surviving(metric) ==
  {i \in 1..Len(iaq) : InsideWindow(iaq[i]) /\ IsNumber(MetricOf(metric, iaq[i]))}

SurvivingChannels(metric) == {ChannelOf(iaq[i]) : i \in Surviving(metric)}

\* The series s holds the points of the surviving readings of channel c,
\* each as many times as there are such readings, and no other point.
HoldsChannel(s, c, metric) ==
  LET mine == {i \in Surviving(metric) : ChannelOf(iaq[i]) = c}
  IN  /\ Len(s.data) = Cardinality(mine)
      /\ \A i \in mine :
           Cardinality({j \in 1..Len(s.data) :
                          s.data[j] = [x |-> iaq[i].timestamp,
                                       y |-> MetricOf(metric, iaq[i]).v]})
             = Cardinality({k \in mine :
                              /\ iaq[k].timestamp = iaq[i].timestamp
                              /\ MetricOf(metric, iaq[k]).v = MetricOf(metric, iaq[i]).v})

Ascending(s) ==
  \A j, k \in 1..Len(s.data) : j < k => s.data[j].x <= s.data[k].x

GroupedAndOrdered(series, metric) ==
  /\ Len(series) = Cardinality(SurvivingChannels(metric))
  /\ \A c \in SurvivingChannels(metric) :
       Cardinality({i \in 1..Len(series) :
                      HoldsChannel(series[i], c, metric)}) = 1
  /\ \A i \in 1..Len(series) : Ascending(series[i])

\* C15: buildSeries returns exactly one series for each channel that has a
\* surviving point, with the points of that channel and no other, in
\* ascending order of timestamp whatever the order of the store.
C15_SeriesGroupedAndOrdered ==
  ev.op = "render" =>
    /\ GroupedAndOrdered(ev.co2Series, "co2")
    /\ GroupedAndOrdered(ev.tempSeries, "temperature")

\* A render of a store that holds two readings of one channel, the later
\* one first, around a reading of another channel: two series, the first
\* with two points.
C15_Witness ==
  /\ ev.op = "render"
  /\ Len(ev.co2Series) = 2
  /\ \E i, j, k \in Surviving("co2") :
       /\ i < j /\ j < k
       /\ ChannelOf(iaq[i]) = ChannelOf(iaq[k])
       /\ ChannelOf(iaq[j]) # ChannelOf(iaq[i])
       /\ iaq[i].timestamp > iaq[k].timestamp
  /\ Len(ev.co2Series[1].data) = 2

----------------------------------------------------------------------------
(* C16: unknown channels *)

\* The channels that the label table of the co2 chart names.
LabelledChannels ==
  {"before_scrub", "after_scrub", "interlock_4c", "1", "2", "3", "4"}

\* C16: a channel that the label table does not name is not dropped: the
\* co2 chart has a series with its points whose name is the fallback label
\* "CO₂ Sensor " followed by the raw identifier.
C16_UnknownChannelLabelled ==
  ev.op = "render" =>
    \A c \in SurvivingChannels("co2") \ LabelledChannels :
      \E i \in 1..Len(ev.co2Series) :
        /\ HoldsChannel(ev.co2Series[i], c, "co2")
        /\ ev.co2Series[i].name = "CO₂ Sensor " \o c

----------------------------------------------------------------------------
(* Vocabulary of the properties of the bands *)

\* The control channel under its two names.
ControlChannel(r) == ChannelOf(r) \in {"interlock_4c", "4"}

\* The readings of the control channel inside the window, in the order of
\* the store.
ControlReadings == SelectSeq(iaq, LAMBDA r : ControlChannel(r) /\ InsideWindow(r))

TimeOrdered(rows) ==
  \A i, j \in 1..Len(rows) : i < j => rows[i].timestamp <= rows[j].timestamp

\* A reading is classified when its mode is one of the six of the palette.
Classified(r) == r.mode.k = "num" /\ r.mode.v \in 0..5

\* Band(from, to, mode) as the chart takes it: with the colour of the mode.
Band(from, to, mode) == [from |-> from, to |-> to, color |-> MODE_COLORS[mode]]

\* The machine NoOpenBand / OpenBand(mode, start) with the bands emitted so
\* far.
NoOpenBand(out) == [open |-> FALSE, mode |-> 0, start |-> 0, out |-> out]

OpenBand(mode, start, out) ==
  [open |-> TRUE, mode |-> mode, start |-> start, out |-> out]

\* One transition of the machine on the reading r.
Transition(q, r) ==
  IF ~Classified(r)
    THEN IF q.open
           THEN NoOpenBand(Append(q.out, Band(q.start, r.timestamp, q.mode)))
           ELSE q
    ELSE IF ~q.open
           THEN OpenBand(r.mode.v, r.timestamp, q.out)
           ELSE IF r.mode.v = q.mode
                  THEN q
                  ELSE OpenBand(r.mode.v, r.timestamp,
                                Append(q.out,
                                       Band(q.start, r.timestamp, q.mode)))

RECURSIVE RunFrom(_, _, _)
RunFrom(q, rows, i) ==
  IF i > Len(rows) THEN q ELSE RunFrom(Transition(q, rows[i]), rows, i + 1)

\* The bands of the machine on rows, with the terminal flush to windowEnd.
MachineBands(rows, windowEnd) ==
  LET q == RunFrom(NoOpenBand(<<>>), rows, 1)
  IN  IF q.open THEN Append(q.out, Band(q.start, windowEnd, q.mode)) ELSE q.out

\* The timestamps and the modes of rows, in order.
Modes(rows) ==
  [i \in 1..Len(rows) |-> <<rows[i].timestamp, rows[i].mode>>]

----------------------------------------------------------------------------
(* C17: band segmentation *)

\* C17: on a time-ordered sequence of control readings inside the window
\* buildModeBands emits the bands of the machine NoOpenBand / OpenBand with
\* its terminal flush; in particular the readings (t0, 1), (t1, 1), (t2, 3)
\* with t0 < t1 < t2 < windowEnd give Band(t0, t2, 1), Band(t2, windowEnd, 3).
C17_BandsOfTheMachine ==
  ev.op = "render" /\ TimeOrdered(ControlReadings) =>
    /\ ev.modeBands = MachineBands(ControlReadings, nowMs)
    /\ \A t0, t1, t2 \in 0..nowMs :
         /\ t0 < t1 /\ t1 < t2 /\ t2 < nowMs
         /\ Modes(ControlReadings)
              = <<<<t0, Some(1)>>, <<t1, Some(1)>>, <<t2, Some(3)>>>>
         => ev.modeBands = <<Band(t0, t2, 1), Band(t2, nowMs, 3)>>

\* The render of the control readings (t0, 1), (t1, 1), (t2, 3) inside a
\* window that ends after t2.
C17_Witness ==
  /\ ev.op = "render"
  /\ Len(ControlReadings) = 3
  /\ ControlReadings[1].timestamp < ControlReadings[2].timestamp
  /\ ControlReadings[2].timestamp < ControlReadings[3].timestamp
  /\ ControlReadings[3].timestamp < nowMs
  /\ <<ControlReadings[1].mode, ControlReadings[2].mode,
       ControlReadings[3].mode>> = <<Some(1), Some(1), Some(3)>>
  /\ Len(ev.modeBands) = 2

----------------------------------------------------------------------------
(* C18: band closing on an unclassified reading *)

\* The control reading i is scanned before the control reading j: it is
\* earlier, or as early and before it in the store.
ScannedBefore(i, j) ==
  \/ ControlReadings[i].timestamp < ControlReadings[j].timestamp
  \/ /\ ControlReadings[i].timestamp = ControlReadings[j].timestamp
     /\ i < j

\* The control reading i is scanned just before the control reading j.
ScannedJustBefore(i, j) ==
  /\ ScannedBefore(i, j)
  /\ \A k \in 1..Len(ControlReadings) :
       ~(ScannedBefore(i, k) /\ ScannedBefore(k, j))

\* C18: an unclassified control reading met while a band is open closes the
\* band at its timestamp and leaves none open, so that nothing reaches
\* windowEnd unless a classified reading follows: the readings (t0, m),
\* (t1, null) give exactly Band(t0, t1, m); an unclassified reading met
\* with no band open emits nothing.
C18_UnclassifiedCloses ==
  ev.op = "render" =>
    LET c == ControlReadings
    IN  /\ \A i, j \in 1..Len(c) :
             ScannedJustBefore(i, j) /\ Classified(c[i]) /\ ~Classified(c[j])
               => \E b \in 1..Len(ev.modeBands) :
                    /\ ev.modeBands[b].to = c[j].timestamp
                    /\ ev.modeBands[b].color = MODE_COLORS[c[i].mode.v]
                    /\ ev.modeBands[b].from <= c[i].timestamp
        /\ \A j \in 1..Len(c) :
             /\ ~Classified(c[j])
             /\ \A k \in 1..Len(c) : k # j => ScannedBefore(k, j)
             => \A b \in 1..Len(ev.modeBands) :
                  ev.modeBands[b].to <= c[j].timestamp
        /\ (\A j \in 1..Len(c) : ~Classified(c[j])) => ev.modeBands = <<>>
        /\ \A m \in 0..5 :
             /\ Len(c) = 2
             /\ c[1].timestamp < c[2].timestamp
             /\ c[1].mode = Some(m)
             /\ c[2].mode = NoValue
             => ev.modeBands = <<Band(c[1].timestamp, c[2].timestamp, m)>>

\* The render of the control readings (t0, 2), (t1, null) with t1 before
\* windowEnd: one band, closed at t1.
C18_Witness ==
  /\ ev.op = "render"
  /\ Len(ControlReadings) = 2
  /\ ControlReadings[1].timestamp < ControlReadings[2].timestamp
  /\ ControlReadings[2].timestamp < nowMs
  /\ ControlReadings[1].mode = Some(2)
  /\ ControlReadings[2].mode = NoValue
  /\ Len(ev.modeBands) = 1
  /\ ev.modeBands[1].to = ControlReadings[2].timestamp

----------------------------------------------------------------------------
(* C19: band non-overlap and order *)

\* C19: whatever the store holds, in whatever order and with whatever
\* duplicate timestamps, and whatever the window, each band ends no later
\* than the next one starts and the bands are in ascending order of from.
C19_BandsDoNotOverlap ==
  ev.op = "render" =>
    \A i \in 1..(Len(ev.modeBands) - 1) :
      /\ ev.modeBands[i].to <= ev.modeBands[i + 1].from
      /\ ev.modeBands[i].from <= ev.modeBands[i + 1].from

\* The render of a store whose control readings are out of time order, two
\* of them at one timestamp, that gives several bands.
C19_Witness ==
  /\ ev.op = "render"
  /\ ~TimeOrdered(ControlReadings)
  /\ \E i, j \in 1..Len(ControlReadings) :
       i # j /\ ControlReadings[i].timestamp = ControlReadings[j].timestamp
  /\ Len(ev.modeBands) >= 2

----------------------------------------------------------------------------
(* C20: control-channel aliases *)

\* The store with the readings of the control channel only, all under the
\* name "interlock_4c".
UnderOneName ==
  LET control == SelectSeq(iaq, ControlChannel)
  IN  [i \in 1..Len(control) |->
         [control[i] EXCEPT !.sensor_id = StrId("interlock_4c")]]

\* C20: the readings of "interlock_4c" and of "4", given as a string or as
\* a number, are scanned as one time-ordered sequence, and the readings of
\* the other channels never open, close or change a band: the bands are
\* those of the control readings put under one name, and every band starts
\* at a control reading and ends at one or at windowEnd.
C20_AliasesAreOneChannel ==
  ev.op = "render" =>
    /\ ev.modeBands = buildModeBands(UnderOneName, nowMs - timeHis, nowMs)
    /\ \A b \in 1..Len(ev.modeBands) :
         /\ \E i \in 1..Len(ControlReadings) :
              /\ ControlReadings[i].timestamp = ev.modeBands[b].from
              /\ Classified(ControlReadings[i])
         /\ \/ ev.modeBands[b].to = nowMs
            \/ \E i \in 1..Len(ControlReadings) :
                 ControlReadings[i].timestamp = ev.modeBands[b].to

\* The render of a store with a reading of interlock_4c, a later reading of
\* the sensor number 4 in another mode and a reading of another sensor that
\* carries a mode: the band of interlock_4c ends where that of 4 starts.
C20_Witness ==
  /\ ev.op = "render"
  /\ \E i, j, k \in 1..Len(iaq) :
       /\ iaq[i].sensor_id = StrId("interlock_4c")
       /\ iaq[j].sensor_id = NumId(4)
       /\ ~ControlChannel(iaq[k]) /\ iaq[k].mode # NoValue
       /\ InsideWindow(iaq[i]) /\ InsideWindow(iaq[j]) /\ InsideWindow(iaq[k])
       /\ iaq[i].timestamp < iaq[j].timestamp
       /\ Len(ev.modeBands) = 2
       /\ ev.modeBands[1].from = iaq[i].timestamp
       /\ ev.modeBands[1].to = iaq[j].timestamp
       /\ ev.modeBands[2].from = iaq[j].timestamp

----------------------------------------------------------------------------
(* C21: out-of-palette mode *)

\* A reading whose mode is a number that is not a key of the palette.
OutOfPalette(r) == r.mode.k = "num" /\ r.mode.v \notin 0..5

\* The store with the mode of every out-of-palette control reading removed.
WithoutOutOfPalette ==
  [i \in 1..Len(iaq) |->
     IF ControlChannel(iaq[i]) /\ OutOfPalette(iaq[i])
       THEN [iaq[i] EXCEPT !.mode = NoValue]
       ELSE iaq[i]]

\* C21: a control reading whose mode is a number outside 0..5 is handled as
\* a reading with no mode: the bands are those of the store with these
\* modes removed, it closes at its timestamp the band that the reading
\* scanned just before it left open, no band starts anywhere but at a
\* classified reading, with the colour of that reading, and the render
\* gives its bands (no error).
C21_OutOfPaletteAsNoMode ==
  ev.op = "render" =>
    LET c == ControlReadings
    IN  /\ ev.modeBands
             = buildModeBands(WithoutOutOfPalette, nowMs - timeHis, nowMs)
        /\ \A i, j \in 1..Len(c) :
             ScannedJustBefore(i, j) /\ Classified(c[i]) /\ OutOfPalette(c[j])
               => \E b \in 1..Len(ev.modeBands) :
                    /\ ev.modeBands[b].to = c[j].timestamp
                    /\ ev.modeBands[b].color = MODE_COLORS[c[i].mode.v]
        /\ \A b \in 1..Len(ev.modeBands) :
             \E i \in 1..Len(c) :
               /\ Classified(c[i])
               /\ c[i].timestamp = ev.modeBands[b].from
               /\ MODE_COLORS[c[i].mode.v] = ev.modeBands[b].color
        /\ (\A i \in 1..Len(c) : OutOfPalette(c[i]) \/ c[i].mode = NoValue)
             => ev.modeBands = <<>>

\* The render of a classified control reading followed by a later one of
\* mode 7, before windowEnd: one band, closed at the reading of mode 7.
C21_Witness ==
  /\ ev.op = "render"
  /\ Len(ControlReadings) = 2
  /\ Classified(ControlReadings[1])
  /\ ControlReadings[2].mode = Some(7)
  /\ ControlReadings[1].timestamp < ControlReadings[2].timestamp
  /\ ControlReadings[2].timestamp < nowMs
  /\ Len(ev.modeBands) = 1
  /\ ev.modeBands[1].to = ControlReadings[2].timestamp

----------------------------------------------------------------------------
(* Vocabulary of the properties of the latest values *)

\* The channels of the status tiles.
Tracked == {"before_scrub", "after_scrub", "interlock_4c"}

\* The readings of the channel c in the store, wherever the window is.
ReadingsOf(c) == {i \in 1..Len(iaq) : ChannelOf(iaq[i]) = c}

\* The snapshots of the channel c among the latest values.
SnapshotsOf(c) ==
  {isNewestIAQ[k] : k \in {n \in 1..Len(isNewestIAQ) :
                             isNewestIAQ[n].sensor_id = c}}

\* The snapshot s carries the timestamp and the values of the reading r.
Carries(s, r) ==
  /\ s.timestamp = Some(r.timestamp)
  /\ s.co2 = r.co2
  /\ s.humidity = r.humidity
  /\ s.temperature = TemperatureOf(r)
  /\ s.mode = r.mode

\* The readings of the channel c that no other reading of c is later than.
GreatestOf(c) ==
  {i \in ReadingsOf(c) :
     \A j \in ReadingsOf(c) : iaq[j].timestamp <= iaq[i].timestamp}

----------------------------------------------------------------------------
(* C22: latest value over the full store *)

\* C22: for each tracked channel with at least one reading in the store,
\* the snapshot of the channel has the greatest timestamp among the store's
\* readings of the channel and carries the values of a reading with that
\* timestamp, wherever the chart window is.
C22_LatestIsMaximum ==
  ev.op = "render" =>
    \A c \in Tracked :
      ReadingsOf(c) # {} =>
        /\ Cardinality(SnapshotsOf(c)) = 1
        /\ \A s \in SnapshotsOf(c) :
             \E i \in GreatestOf(c) : Carries(s, iaq[i])

\* The readings of the channel c that can replace the fallback: those with
\* a timestamp greater than the 0 of the fallback.
DatedOf(c) == {i \in ReadingsOf(c) : iaq[i].timestamp > 0}

\* The first reading in the store among the latest dated ones of c.
FirstLatestOf(c) ==
  {i \in DatedOf(c) :
     \A j \in DatedOf(c) :
       /\ iaq[j].timestamp <= iaq[i].timestamp
       /\ j < i => iaq[j].timestamp < iaq[i].timestamp}

\* C22, amended: for each tracked channel with at least one reading whose
\* timestamp is greater than 0, the snapshot carries the timestamp and the
\* values of the first reading in the store among those of the channel
\* with the greatest timestamp, wherever the chart window is; a tracked
\* channel whose readings all have a timestamp of 0 or less keeps the
\* fallback.
C22_LatestIsMaximumDated ==
  ev.op = "render" =>
    \A c \in Tracked :
      /\ Cardinality(SnapshotsOf(c)) = 1
      /\ \A s \in SnapshotsOf(c) :
           IF DatedOf(c) # {}
             THEN \E i \in FirstLatestOf(c) : Carries(s, iaq[i])
             ELSE s.timestamp = Some(0) /\ s.co2 = NoValue /\ s.mode = NoValue

\* The render of a store with two dated readings of a tracked channel, the
\* later one outside the chart window, when the snapshot carries it.
C22_Witness ==
  /\ ev.op = "render"
  /\ \E c \in Tracked : \E i, j \in DatedOf(c) :
       /\ iaq[i].timestamp < iaq[j].timestamp
       /\ ~InsideWindow(iaq[j])
       /\ \A s \in SnapshotsOf(c) : Carries(s, iaq[j])

----------------------------------------------------------------------------
(* C23: latest-value fallback *)

\* The measurement fields of the snapshot s are all null.
NoMeasurement(s) ==
  /\ s.co2 = NoValue
  /\ s.humidity = NoValue
  /\ s.temperature = NoValue
  /\ s.mode = NoValue

\* C23 as stated: every tracked channel has one snapshot among the latest
\* values, and that of a channel with no reading in the store has null
\* measurement fields and a null timestamp.
C23_FallbackNullTimestamp ==
  ev.op = "render" =>
    \A c \in Tracked :
      /\ Cardinality(SnapshotsOf(c)) = 1
      /\ ReadingsOf(c) = {} =>
           \A s \in SnapshotsOf(c) : NoMeasurement(s) /\ s.timestamp = NoValue

\* C23, amended: the latest values are three records, for before_scrub,
\* after_scrub and interlock_4c in this order, whatever the store holds;
\* the record of a channel with no reading in the store is the fallback of
\* the channel: id "-", the label of the channel, null measurement fields
\* and the timestamp 0.
C23_FallbackZeroTimestamp ==
  ev.op = "render" =>
    /\ [k \in 1..Len(isNewestIAQ) |-> isNewestIAQ[k].sensor_id]
         = <<"before_scrub", "after_scrub", "interlock_4c">>
    /\ \A c \in Tracked :
         ReadingsOf(c) = {} =>
           \A s \in SnapshotsOf(c) :
             /\ NoMeasurement(s)
             /\ s.timestamp = Some(0)
             /\ s.id = StrId("-")
             /\ s.label = CASE c = "before_scrub" -> "Inlet (Before Scrub)"
                            [] c = "after_scrub" -> "Outlet (After Scrub)"
                            [] c = "interlock_4c" -> "Interlock 4C"

\* The render of the empty store: three fallback records.
C23_Witness ==
  /\ ev.op = "render"
  /\ iaq = <<>>
  /\ Len(isNewestIAQ) = 3
  /\ \A k \in 1..3 : isNewestIAQ[k].timestamp = Some(0)

----------------------------------------------------------------------------
(* C24: control-channel aliases in the latest values *)

\* The readings of the control channel under either of its names.
ControlReadingsOfStore == {i \in 1..Len(iaq) : ControlChannel(iaq[i])}

\* C24: when the store holds a reading of "interlock_4c" at t1 and a
\* reading of "4" at t2 with t1 < t2, the reading of "4" being the latest
\* of the two channels, the latest values hold one snapshot of the
\* interlock channel and it is the snapshot at t2.
C24_AliasesShareSnapshot ==
  ev.op = "render" =>
    \A i \in ReadingsOf("interlock_4c"), j \in ReadingsOf("4") :
      /\ 0 < iaq[i].timestamp
      /\ iaq[i].timestamp < iaq[j].timestamp
      /\ \A k \in ControlReadingsOfStore :
           iaq[k].timestamp <= iaq[j].timestamp
      => /\ Cardinality(SnapshotsOf("interlock_4c")) = 1
         /\ \A s \in SnapshotsOf("interlock_4c") :
              s.timestamp = Some(iaq[j].timestamp)

----------------------------------------------------------------------------
(* C25: bands of no width *)

\* C25 as stated: no band has from = to.
C25_NoZeroWidthBand ==
  ev.op = "render" =>
    \A b \in 1..Len(ev.modeBands) : ev.modeBands[b].from # ev.modeBands[b].to

\* The band b is closed by a second control reading at the timestamp of the
\* classified reading that opened it.
ClosedWhereOpened(b) ==
  \E i, j \in 1..Len(ControlReadings) :
    /\ i # j
    /\ Classified(ControlReadings[i])
    /\ ControlReadings[i].timestamp = ev.modeBands[b].from
    /\ ControlReadings[j].timestamp = ev.modeBands[b].from
    /\ ~(Classified(ControlReadings[j])
           /\ ControlReadings[j].mode = ControlReadings[i].mode)

\* The band b is the last one, flushed at windowEnd, and a classified
\* reading at windowEnd opened it.
FlushedWhereOpened(b) ==
  /\ b = Len(ev.modeBands)
  /\ ev.modeBands[b].to = nowMs
  /\ \E i \in 1..Len(ControlReadings) :
       /\ Classified(ControlReadings[i])
       /\ ControlReadings[i].timestamp = nowMs

\* C25, amended: no band has from > to, and opening a band emits nothing; a
\* band with from = to is emitted only when the band is closed at the
\* timestamp it was opened at: by a second control reading with that
\* timestamp (another classified mode, or none), or by the flush when a
\* classified reading has the timestamp windowEnd.
C25_ZeroWidthOnlyWhenClosedAtOpening ==
  ev.op = "render" =>
    \A b \in 1..Len(ev.modeBands) :
      /\ ev.modeBands[b].from <= ev.modeBands[b].to
      /\ ev.modeBands[b].from = ev.modeBands[b].to
           => ClosedWhereOpened(b) \/ FlushedWhereOpened(b)

\* The render of two control readings at one timestamp before windowEnd
\* with two classified modes: the band of the first has no width.
C25_Witness ==
  /\ ev.op = "render"
  /\ Len(ControlReadings) = 2
  /\ ControlReadings[1].timestamp = ControlReadings[2].timestamp
  /\ ControlReadings[1].timestamp < nowMs
  /\ Classified(ControlReadings[1]) /\ Classified(ControlReadings[2])
  /\ ControlReadings[1].mode # ControlReadings[2].mode
  /\ Len(ev.modeBands) = 2
  /\ ev.modeBands[1].from = ev.modeBands[1].to

----------------------------------------------------------------------------
(* C26: bands as maximal runs *)

\* C26 as stated: two consecutive bands that touch never have the same
\* colour.
C26_TouchingBandsDiffer ==
  ev.op = "render" =>
    \A b \in 1..(Len(ev.modeBands) - 1) :
      ev.modeBands[b].to = ev.modeBands[b + 1].from
        => ev.modeBands[b].color # ev.modeBands[b + 1].color

\* C26, amended: two consecutive bands have the same colour only when an
\* unclassified control reading closed the first one, at the timestamp
\* where it ends; so a band is never split while the classified mode stays
\* the same, and two touching bands of one colour need an unclassified
\* reading and a classified one at the same timestamp. With no
\* unclassified control reading in the window all consecutive bands touch
\* and differ in colour.
C26_SameColourOnlyAcrossUnclassified ==
  ev.op = "render" =>
    LET c == ControlReadings
    IN  /\ \A b \in 1..(Len(ev.modeBands) - 1) :
             ev.modeBands[b].color = ev.modeBands[b + 1].color
               => \E k \in 1..Len(c) :
                    /\ ~Classified(c[k])
                    /\ c[k].timestamp = ev.modeBands[b].to
        /\ (\A k \in 1..Len(c) : Classified(c[k]))
             => \A b \in 1..(Len(ev.modeBands) - 1) :
                  /\ ev.modeBands[b].to = ev.modeBands[b + 1].from
                  /\ ev.modeBands[b].color # ev.modeBands[b + 1].color
        /\ \A m \in 0..5 :
             (Len(c) >= 1 /\ \A k \in 1..Len(c) : c[k].mode = Some(m))
               => Len(ev.modeBands) = 1

\* The render of the control readings (t0, m), (t1, null), (t1, m) held in
\* this order: two bands of one colour that touch at t1.
C26_Witness ==
  /\ ev.op = "render"
  /\ Len(ControlReadings) = 3
  /\ ControlReadings[1].timestamp < ControlReadings[2].timestamp
  /\ ControlReadings[2].timestamp = ControlReadings[3].timestamp
  /\ ControlReadings[2].mode = NoValue
  /\ Classified(ControlReadings[1])
  /\ ControlReadings[3].mode = ControlReadings[1].mode
  /\ Len(ev.modeBands) = 2
  /\ ev.modeBands[1].to = ev.modeBands[2].from
  /\ ev.modeBands[1].color = ev.modeBands[2].color

----------------------------------------------------------------------------
(* C27: the views and the updater leave their argument as it is *)

----------------------------------------------------------------------------
(* C28: bands inside the window *)

\* The store without the control readings that are outside the window.
WithoutOutsideControl ==
  SelectSeq(iaq, LAMBDA r : ~ControlChannel(r) \/ InsideWindow(r))

\* C28: with windowStart <= windowEnd every band has
\* windowStart <= from <= to <= windowEnd; every band starts at a control
\* reading inside the window and ends at one or at windowEnd; and the
\* control readings outside the window change nothing: the bands are those
\* of the store without them.
C28_BandsInsideWindow ==
  ev.op = "render" /\ nowMs - timeHis <= nowMs =>
    /\ \A b \in 1..Len(ev.modeBands) :
         /\ nowMs - timeHis <= ev.modeBands[b].from
         /\ ev.modeBands[b].from <= ev.modeBands[b].to
         /\ ev.modeBands[b].to <= nowMs
         /\ \E i \in 1..Len(ControlReadings) :
              ControlReadings[i].timestamp = ev.modeBands[b].from
         /\ \/ ev.modeBands[b].to = nowMs
            \/ \E i \in 1..Len(ControlReadings) :
                 ControlReadings[i].timestamp = ev.modeBands[b].to
    /\ ev.modeBands
         = buildModeBands(WithoutOutsideControl, nowMs - timeHis, nowMs)

\* The render of a store with a classified control reading before the
\* window, one inside it and one after it: one band, from the reading
\* inside to windowEnd.
C28_Witness ==
  /\ ev.op = "render"
  /\ \E i, j, k \in 1..Len(iaq) :
       /\ ControlChannel(iaq[i]) /\ Classified(iaq[i])
       /\ ControlChannel(iaq[j]) /\ Classified(iaq[j])
       /\ ControlChannel(iaq[k]) /\ Classified(iaq[k])
       /\ iaq[i].timestamp < nowMs - timeHis
       /\ InsideWindow(iaq[j])
       /\ iaq[k].timestamp > nowMs
       /\ ev.modeBands
            = <<Band(iaq[j].timestamp, nowMs, iaq[j].mode.v)>>

----------------------------------------------------------------------------
(* C29: two retention selections in a row *)

\* C29: when the response of a full fetch is applied and no other full
\* fetch is left in flight, the response is that of the request for the
\* retention window selected last, whatever the order of the responses,
\* and it is the content of the store.
C29_LastSelectionWins ==
  [][ev'.op = "handlerStartGet" /\ axiosInflight' = {}
       => axiosInflight = {timeHis} /\ iaq' = ev'.d]_vars

----------------------------------------------------------------------------
(* C30: calibration of before_scrub on every path *)

\* The reading r of the store is the reading s of the server with the
\* calibration offset applied once.
CalibratedOnce(r, s) ==
  /\ IsNumber(s.co2)
  /\ r = [s EXCEPT !.co2 = Some(s.co2.v - Co2Offset)]

\* C30: in every reachable state every before_scrub reading of the store
\* is a reading of the server with the co2 offset applied exactly once,
\* whichever path delivered it, and every reading of another channel is
\* the reading of the server as it was sent.
C30_UniformCalibration ==
  \A i \in 1..Len(iaq) :
    IF ChannelOf(iaq[i]) = "before_scrub"
      THEN \E s \in ServerRows : CalibratedOnce(iaq[i], s)
      ELSE iaq[i] \in ServerRows

====
